---- MODULE Spec2Model ----
(***************************************************************************)
(* A model of pystonks' market time-series core:                           *)
(*   - process_interval and the AlpacaTrader historical_* accessors that   *)
(*     drive it against the sqlite cache (utils/processing.py,             *)
(*     trading/alpaca.py, utils/structures/caching.py);                    *)
(*   - fill_in_sparse_bars, find_bars and create_continuous_sma            *)
(*     (utils/processing.py);                                              *)
(*   - create_continuous_ema, create_ema, calculate_normalized_derivatives *)
(*     and normalize_bipolar (utils/processing.py);                        *)
(*   - MACDStockMetric.process_data (supervised/annotations/utils/         *)
(*     metrics.py), detect_macd_signal_crossover, MACDAnnotator and        *)
(*     PeakAnnotator (supervised/annotations/utils/annotations).           *)
(*   - change_since_news (utils/processing.py), StockMetric.get_data,      *)
(*     process_all and SMAStockMetric.process_data (metrics.py), and the   *)
(*     metric map of setup_ema, setup_macd, setup_signal (metric_setup.py).*)
(* Datetimes are integers.  In the cache machine one day is DayLen clock   *)
(* units; in the bar functions a datetime is a number of seconds since     *)
(* midnight of the day the data belongs to.                                *)
(***************************************************************************)
EXTENDS Integers, Sequences, FiniteSets, TLC

\* ---------------------------------------------------------------- bounds
\* clock units per calendar day (dt.timedelta(days=1) is DayLen units)
DayLen == 2
\* latest start of a requested interval, in clock units
MaxStart == 3
\* longest requested duration, in clock units
MaxDur == 4
\* latest calendar day "today" can be
MaxToday == 3
\* how many provider fetches may raise in one behaviour
MaxFails == 1
\* how many items the provider has at most for one day
ItemsPerDay == 1

\* latest second (since midnight) of an input bar, trade or interval start
MaxT == 4
\* longest input list of bars
MaxBars == 2
\* longest input list of trades
MaxTrades == 3
\* longest list of closes (previous_bars, bars) given to a moving average
MaxLen == 3
\* largest moving-average window
MaxWindow == 3
\* widest bucket, in seconds
MaxDelta == 2
\* longest data.previous_closes an EMA metric is computed from
MaxPrev == 4
\* how many bars the MACD annotator scans
MacdBars == 6
\* how many bars the peak annotator scans
PeakBars == 5
\* most candlesticks given to change_since_news
NewsBars == 4
\* latest updated_at of a news article; the bars are stamped 1, 2, ...
MaxNewsTime == 2
\* longest data.previous_closes of a data set given to a metric object
MetricPrev == 3
\* how many calls are made on a metric object
MetricCalls == 3

\* ------------------------------------------------------------- constants
\* datetime_to_second_offset: hour * 3600 + minute * 60 + second < 86400
SecondsPerDay == 86400
\* MACDAnnotator.annotate: no buy within 10 bars of the last buy
Cooldown == 10
\* PeakAnnotator: trough_limit = 0.1, in hundredths
TroughLimit == 10
\* PeakAnnotator.annotate: no sale within 3 bars of the last buy
HoldBars == 3
\* PeakAnnotator.annotate: the gain of 0.01 a sale needs, in hundredths
GatePercent == 1

VARIABLES
    csn,              \* change_since_news: its arguments and locals
    metric,           \* a StockMetric object and the calls made on it
    fill,             \* fill_in_sparse_bars: its arguments and locals
    find,             \* find_bars: its arguments and locals
    sma,              \* create_continuous_sma: its arguments and locals
    ema,              \* create_continuous_ema, then create_ema: arguments and locals
    mmet,             \* MACDStockMetric.process_data: the two EMA series and the outcome
    norm,             \* calculate_normalized_derivatives: its arguments and locals
    cross,            \* detect_macd_signal_crossover: its arguments and result
    mann,             \* MACDAnnotator.annotate: its arguments and locals
    peak,             \* PeakAnnotator.annotate: its arguments and locals
    today,            \* dt.date.today(), a day number
    tbl_pre,          \* the accessor under study: "bars", "news" or "trades"
    date_processed,   \* rows of {tbl_pre}_date_processed for the symbol: day numbers
    table,            \* rows of the {tbl_pre} table for the symbol: their timestamps
    pc,               \* position of the running call, "idle" when none runs
    caller,           \* "trader" (historical_*) or "direct" (process_interval itself)
    start,            \* process_interval: start
    stop,             \* process_interval: stop = start + duration
    exclusive_end,    \* process_interval: exclusive_end
    current,          \* process_interval: current
    data,             \* process_interval: data of the day being processed
    result,           \* process_interval: result, one entry per finished day
    params,           \* historical_bars / historical_news: bar_params / news_params
    trace,            \* the callbacks the running (or last) call made, in order
    outcome,          \* "none", "running", "returned" or "raised"
    fetched,          \* per day, what the provider last returned for it
    fetchCalls,       \* per day, how often the provider fetch was invoked
    anyError,         \* some trader call ended by an exception
    fails,            \* how many fetches raised so far
    last_call         \* the accessor call just before, when it was the same call

cacheVars == <<today, tbl_pre, date_processed, table, pc, caller, start, stop,
               exclusive_end, current, data, result, params, trace, outcome,
               fetched, fetchCalls, anyError, fails, last_call>>

\* the runs of the pure functions of processing.py
pureVars == <<fill, find, sma, csn, metric>>

\* the runs of the indicators and of the annotators
signalVars == <<ema, mmet, norm, cross, mann, peak>>

vars == <<cacheVars, pureVars, signalVars>>

Unused == [pc |-> "unused"]

\* no indicator and no annotator is under study
SignalIdle ==
    /\ ema = Unused
    /\ mmet = Unused
    /\ norm = Unused
    /\ cross = Unused
    /\ mann = Unused
    /\ peak = Unused

\* change_since_news and the metric objects are not under study
LaterIdle == csn = Unused /\ metric = Unused

\* no pure function is under study
PureIdle ==
    /\ fill = Unused
    /\ find = Unused
    /\ sma = Unused
    /\ LaterIdle
    /\ SignalIdle

\* ------------------------------------------------------- dates and days
Date(t) == t \div DayLen

truncate_datetime(t) == Date(t) * DayLen

Days == 0 .. Date(MaxStart + MaxDur)

NoData == {-1}

\* what the provider can answer for the day starting at midnight d
ProviderResponses(d) ==
    SUBSET {d + o : o \in 0 .. (IF ItemsPerDay < DayLen THEN ItemsPerDay ELSE DayLen) - 1}

\* what an arbitrary fetch or load callback can answer for the datetime d
GenericResponses(d) == {{}, {d}}

Event(op, at, hit, val) == [op |-> op, at |-> at, hit |-> hit, val |-> val]

\* ------------------------------------------------ the cache (alpaca.py)
Accessors == {"bars", "news", "trades"}

\* historical_bars and historical_news collect the rows of every day in a
\* list and write it once process_interval has returned; historical_trades
\* writes each day's rows inside its saver
DeferredSave == tbl_pre \in {"bars", "news"}

check_exists(d) == Date(d) \in date_processed

\* mutant: the rows are not selected by their day
loader_AnyDay(d) == table

\* mutant: the processed marker is written for the following day
save_exists_NextDay(d) == date_processed \cup {Date(d) + 1}

save_exists(d) == date_processed \cup {Date(d)}

loader(d) == {r \in table : Date(r) = Date(d)}

\* insert or replace, keyed by (symbol, timestamp)
cache_save_many(rows) == table \cup rows

\* ------------------------------------------ process_interval (processing.py)
\* mutant: an interval ending today is let through
StaleInterval_AfterToday(stp, excl) == Date(stp) > today /\ ~excl

StaleInterval(stp, excl) == Date(stp) >= today /\ ~excl

\* mutant: the exclusive end is treated as inclusive
LoopCond_Inclusive(cur, stp, excl) == cur <= stp

LoopCond(cur, stp, excl) == (cur < stp /\ excl) \/ (cur <= stp /\ ~excl)

NextDay(cur) == cur + DayLen

CheckAnswers == IF caller = "trader" THEN {check_exists(current)} ELSE BOOLEAN

LoadAnswers == IF caller = "trader" THEN {loader(current)} ELSE GenericResponses(current)

FetchAnswers ==
    IF caller = "trader" THEN ProviderResponses(current) ELSE GenericResponses(current)

\* the call just before did not return, or was asked another interval
NoCall == [same |-> FALSE, count |-> 0]

\* the call just before was asked the same interval, start being truncated
\* to its day, and returned count items (alpaca.py, lines 140-143, 197-200)
Call(count) == [same |-> TRUE, count |-> count]

RECURSIVE Count(_)
\* len of the days of a collated result, added up
Count(res) == IF res = <<>> THEN 0 ELSE Cardinality(Head(res)) + Count(Tail(res))

CacheInit ==
    /\ date_processed = {}
    /\ table = {}
    /\ pc = "idle"
    /\ caller = "trader"
    /\ start = 0
    /\ stop = 0
    /\ exclusive_end = TRUE
    /\ current = 0
    /\ data = {}
    /\ result = <<>>
    /\ params = {}
    /\ trace = <<>>
    /\ outcome = "none"
    /\ fetched = [d \in Days |-> NoData]
    /\ fetchCalls = [d \in Days |-> 0]
    /\ anyError = FALSE
    /\ fails = 0
    /\ last_call = NoCall
    /\ PureIdle

\* lines 50-56: the entry of process_interval, up to the first loop test
Enter(cl, st, dur, excl) ==
    /\ pc = "idle"
    /\ caller' = cl
    /\ start' = st
    /\ stop' = st + dur
    /\ exclusive_end' = excl
    /\ current' = st
    /\ data' = {}
    /\ result' = <<>>
    /\ params' = {}
    /\ trace' = <<>>
    /\ IF StaleInterval(st + dur, excl)
         THEN /\ outcome' = "raised"
              /\ pc' = "idle"
              /\ anyError' = (anyError \/ cl = "trader")
         ELSE /\ outcome' = "running"
              /\ pc' = "loop"
              /\ anyError' = anyError
    /\ last_call' = IF /\ cl = "trader"
                         /\ caller = "trader"
                         /\ outcome = "returned"
                         /\ start = st
                         /\ stop = st + dur
                      THEN Call(Count(result))
                      ELSE NoCall
    /\ UNCHANGED <<today, tbl_pre, date_processed, table, fetched, fetchCalls, fails>>
    /\ UNCHANGED <<pureVars, signalVars>>

\* AlpacaTrader.historical_bars / historical_news / historical_trades
historical(s, dur) == Enter("trader", truncate_datetime(s), dur, TRUE)

\* process_interval called with callbacks of the caller's own
process_interval(s, dur, excl) == Enter("direct", s, dur, excl)

\* lines 57-58
Check ==
    /\ pc = "loop"
    /\ LoopCond(current, stop, exclusive_end)
    /\ \E hit \in CheckAnswers :
         /\ trace' = Append(trace, Event("check", current, hit, {}))
         /\ pc' = IF hit THEN "load" ELSE "fetch"
    /\ UNCHANGED <<last_call, today, tbl_pre, date_processed, table, caller, start, stop,
                   exclusive_end, current, data, result, params, outcome,
                   fetched, fetchCalls, anyError, fails>>
    /\ UNCHANGED <<pureVars, signalVars>>

\* lines 59, 63, 64
Load ==
    /\ pc = "load"
    /\ \E d \in LoadAnswers :
         /\ data' = d
         /\ result' = Append(result, d)
         /\ trace' = Append(trace, Event("load", current, FALSE, d))
    /\ current' = NextDay(current)
    /\ pc' = "loop"
    /\ UNCHANGED <<last_call, today, tbl_pre, date_processed, table, caller, start, stop,
                   exclusive_end, params, outcome, fetched, fetchCalls, anyError, fails>>
    /\ UNCHANGED <<pureVars, signalVars>>

CountFetch == IF caller = "trader"
                THEN [fetchCalls EXCEPT ![Date(current)] = @ + 1]
                ELSE fetchCalls

\* line 61, the provider answers
Fetch ==
    /\ pc = "fetch"
    /\ caller = "trader" => fetchCalls[Date(current)] < MaxFails + 2
    /\ \E d \in FetchAnswers :
         /\ data' = d
         /\ trace' = Append(trace, Event("fetch", current, FALSE, d))
         /\ fetched' = IF caller = "trader"
                         THEN [fetched EXCEPT ![Date(current)] = d]
                         ELSE fetched
    /\ fetchCalls' = CountFetch
    /\ pc' = "save"
    /\ UNCHANGED <<last_call, today, tbl_pre, date_processed, table, caller, start, stop,
                   exclusive_end, current, result, params, outcome, anyError, fails>>
    /\ UNCHANGED <<pureVars, signalVars>>

\* line 61, the provider raises: the exception leaves process_interval and
\* the accessor that called it
FetchRaises ==
    /\ pc = "fetch"
    /\ fails < MaxFails
    /\ caller = "trader" => fetchCalls[Date(current)] < MaxFails + 2
    /\ fails' = fails + 1
    /\ trace' = Append(trace, Event("fetch_raised", current, FALSE, {}))
    /\ fetchCalls' = CountFetch
    /\ anyError' = (anyError \/ caller = "trader")
    /\ outcome' = "raised"
    /\ pc' = "idle"
    /\ UNCHANGED <<last_call, today, tbl_pre, date_processed, table, caller, start, stop,
                   exclusive_end, current, data, result, params, fetched>>
    /\ UNCHANGED <<pureVars, signalVars>>

\* lines 62-64, with the accessor's saver
Save ==
    /\ pc = "save"
    /\ trace' = Append(trace, Event("save", current, FALSE, data))
    /\ IF caller = "trader"
         THEN /\ date_processed' = save_exists(current)
              /\ IF DeferredSave
                   THEN /\ params' = params \cup data
                        /\ table' = table
                   ELSE /\ params' = params
                        /\ table' = IF data # {} THEN cache_save_many(data) ELSE table
         ELSE UNCHANGED <<date_processed, params, table>>
    /\ result' = Append(result, data)
    /\ current' = NextDay(current)
    /\ pc' = "loop"
    /\ UNCHANGED <<last_call, today, tbl_pre, caller, start, stop, exclusive_end, data,
                   outcome, fetched, fetchCalls, anyError, fails>>
    /\ UNCHANGED <<pureVars, signalVars>>

\* line 65, and what the accessor does with the collated result
Finish ==
    /\ pc = "loop"
    /\ ~LoopCond(current, stop, exclusive_end)
    /\ table' = IF caller = "trader" /\ DeferredSave /\ params # {}
                  THEN cache_save_many(params)
                  ELSE table
    /\ outcome' = "returned"
    /\ pc' = "idle"
    /\ UNCHANGED <<last_call, today, tbl_pre, date_processed, caller, start, stop,
                   exclusive_end, current, data, result, params, trace,
                   fetched, fetchCalls, anyError, fails>>
    /\ UNCHANGED <<pureVars, signalVars>>

CallTrader == \E s \in 0 .. MaxStart, dur \in 0 .. MaxDur : historical(s, dur)

CallDirect ==
    \E s \in 0 .. MaxStart, dur \in 0 .. MaxDur, excl \in BOOLEAN :
        process_interval(s, dur, excl)

\* The accessors of AlpacaTrader against the cache.  They always pass
\* exclusive_end = TRUE, so process_interval never reads today.
Init ==
    /\ today = MaxToday
    /\ tbl_pre \in Accessors
    /\ CacheInit

Next ==
    \/ CallTrader
    \/ Check
    \/ Load
    \/ Fetch
    \/ FetchRaises
    \/ Save
    \/ Finish

Spec == Init /\ [][Next]_vars

\* process_interval itself, with arbitrary callbacks, on any day
InitInterval ==
    /\ today \in 0 .. MaxToday
    /\ tbl_pre = "bars"
    /\ CacheInit

NextInterval ==
    \/ CallDirect
    \/ Check
    \/ Load
    \/ Fetch
    \/ FetchRaises
    \/ Save
    \/ Finish

SpecInterval == InitInterval /\ [][NextInterval]_vars

\* ------------------------------------------------------------ claims C1-C4
\* the datetimes start, start + 1 day, ... that lie strictly before stp
VisitedDays(st, stp) ==
    LET n == IF stp <= st THEN 0 ELSE ((stp - st - 1) \div DayLen) + 1
    IN  [k \in 1 .. n |-> st + (k - 1) * DayLen]

RECURSIVE Replay(_, _, _)
\* tr is, day by day in the order of days, check then load (hit) or check,
\* fetch, save (miss), and res holds each day's loaded or fetched value
Replay(tr, days, res) ==
    IF days = <<>>
      THEN tr = <<>> /\ res = <<>>
      ELSE /\ Len(tr) >= 2
           /\ Len(res) >= 1
           /\ tr[1].op = "check"
           /\ tr[1].at = Head(days)
           /\ IF tr[1].hit
                THEN /\ tr[2] = Event("load", Head(days), FALSE, Head(res))
                     /\ Replay(SubSeq(tr, 3, Len(tr)), Tail(days), Tail(res))
                ELSE /\ Len(tr) >= 3
                     /\ tr[2] = Event("fetch", Head(days), FALSE, Head(res))
                     /\ tr[3] = Event("save", Head(days), FALSE, Head(res))
                     /\ Replay(SubSeq(tr, 4, Len(tr)), Tail(days), Tail(res))

LastEvent == trace[Len(trace)]

\* C2: when the provider fetch raises inside historical_bars or
\* historical_news, the error propagates with the failed fetch as the last
\* callback made, and every day the cache marks as processed loads exactly
\* the items that were fetched for it.
C2_PartialIntervalKeepsCache ==
    (outcome = "raised" /\ tbl_pre \in {"bars", "news"})
        => /\ LastEvent.op = "fetch_raised"
           /\ \A d \in date_processed : loader(d * DayLen) = fetched[d]

\* C3: as long as every accessor call completed without error, the provider
\* fetch was invoked at most once for each day, and a day that was fetched
\* and saved is marked processed, so that check is true for it and later
\* calls load it.
C3_AtMostOneFetch ==
    ~anyError =>
        \A d \in Days :
            /\ fetchCalls[d] <= 1
            /\ (fetchCalls[d] = 1 /\ ~(pc = "save" /\ Date(current) = d))
                   => check_exists(d * DayLen)
            /\ (pc = "fetch" /\ Date(current) = d) => fetchCalls[d] = 0

\* a later call loads a day that an earlier call fetched
C3_Witness ==
    /\ ~anyError
    /\ outcome = "returned"
    /\ \E i \in 1 .. Len(trace) :
         /\ trace[i].op = "load"
         /\ fetchCalls[Date(trace[i].at)] = 1

\* C4: a call with exclusive_end = FALSE whose end date is today or later
\* raises at once: no check, load, fetch or save was made for any day and
\* nothing was collected.
C4_StaleIntervalRaisesFirst ==
    (outcome # "none" /\ ~exclusive_end /\ Date(stop) >= today)
        => /\ outcome = "raised"
           /\ pc = "idle"
           /\ trace = <<>>
           /\ result = <<>>

\* an inclusive interval that ends today (not after it) was refused
C4_Witness ==
    /\ outcome = "raised"
    /\ ~exclusive_end
    /\ Date(stop) = today
    /\ start < stop
    /\ trace = <<>>

\* ------------------------------------------------------- bars (models.py)
Bar(ts, o, c, h, l, v, synth) ==
    [timestamp |-> ts, open |-> o, close |-> c, high |-> h, low |-> l,
     volume |-> v, synth |-> synth]

\* hour * 3600 + minute * 60 + second of a datetime: the date is dropped
datetime_to_second_offset(t) == t % SecondsPerDay

nearest_bucket(sinit, w) == sinit - (sinit % w)

RECURSIVE InsertByTimestamp(_, _)
\* x placed behind every element whose timestamp is not later (stable)
InsertByTimestamp(sorted, x) ==
    IF sorted = <<>> \/ sorted[Len(sorted)].timestamp <= x.timestamp
      THEN Append(sorted, x)
      ELSE Append(InsertByTimestamp(SubSeq(sorted, 1, Len(sorted) - 1), x),
                  sorted[Len(sorted)])

RECURSIVE SortByTimestamp(_)
\* sorted(xs, key=lambda b: b.timestamp)
SortByTimestamp(xs) ==
    IF xs = <<>>
      THEN <<>>
      ELSE InsertByTimestamp(SortByTimestamp(SubSeq(xs, 1, Len(xs) - 1)), xs[Len(xs)])

\* ------------------------------------- fill_in_sparse_bars (processing.py)
Widths == 1 .. MaxDelta

\* the prices and volumes an input bar can have
BarShapes == {<<1, 2, 3, 1, 5>>, <<4, 3, 4, 2, 0>>}

InputBars ==
    {Bar(ts, sh[1], sh[2], sh[3], sh[4], sh[5], FALSE) : ts \in 0 .. MaxT, sh \in BarShapes}

InputBarLists == UNION {[1 .. n -> InputBars] : n \in 0 .. MaxBars}

\* mutant: the filler repeats the previous bar's open
Filler_Open(bts, previous) ==
    Bar(bts, previous.open, previous.close, previous.close, previous.close, 0, TRUE)

\* lines 433 and 442
Filler(bts, previous) ==
    Bar(bts, previous.close, previous.close, previous.close, previous.close, 0, TRUE)

\* line 426: the first boundary the walk expects
FirstBoundary(bucket, w) == bucket + w

fillRest == <<cacheVars, find, sma, csn, metric, signalVars>>

FillInit ==
    \E st \in 0 .. MaxT, sp \in 1 .. MaxT + 1, w \in Widths, bs \in InputBarLists :
        /\ st < sp
        /\ fill = [pc |-> "call", start |-> st, stop |-> sp, delta |-> w, bars |-> bs,
                   idx |-> 1, nts |-> 0, bts |-> 0,
                   previous |-> Bar(st, 0, 0, 0, 0, 0, TRUE), result |-> <<>>]

\* lines 413-428
FillBegin ==
    /\ fill.pc = "call"
    /\ IF Len(fill.bars) = 0
         THEN fill' = [fill EXCEPT !.pc = "done"]
         ELSE LET bstart == nearest_bucket(datetime_to_second_offset(fill.start), fill.delta)
                  nts    == FirstBoundary(bstart, fill.delta)
              IN  fill' = [fill EXCEPT !.pc = "for",
                                       !.bars = SortByTimestamp(fill.bars),
                                       !.idx = 1,
                                       !.nts = nts,
                                       !.bts = nts,
                                       !.previous = Bar(fill.start, 0, 0, 0, 0, 0, TRUE)]
    /\ UNCHANGED fillRest

\* lines 431-435: one turn of the inner while
FillGap ==
    /\ fill.pc = "for"
    /\ fill.idx <= Len(fill.bars)
    /\ datetime_to_second_offset(fill.bars[fill.idx].timestamp) > fill.nts
    /\ fill' = [fill EXCEPT !.result = Append(@, Filler(fill.bts, fill.previous)),
                            !.bts = @ + fill.delta,
                            !.nts = @ + fill.delta]
    /\ UNCHANGED fillRest

\* lines 436-439
FillBar ==
    /\ fill.pc = "for"
    /\ fill.idx <= Len(fill.bars)
    /\ ~(datetime_to_second_offset(fill.bars[fill.idx].timestamp) > fill.nts)
    /\ fill' = [fill EXCEPT !.result = Append(@, fill.bars[fill.idx]),
                            !.previous = fill.bars[fill.idx],
                            !.bts = @ + fill.delta,
                            !.nts = @ + fill.delta,
                            !.idx = @ + 1]
    /\ UNCHANGED fillRest

\* lines 441-444: one turn of the trailing while
FillTail ==
    /\ fill.pc = "for"
    /\ fill.idx > Len(fill.bars)
    /\ fill.bts < fill.stop
    /\ fill' = [fill EXCEPT !.result = Append(@, Filler(fill.bts, fill.previous)),
                            !.bts = @ + fill.delta,
                            !.nts = @ + fill.delta]
    /\ UNCHANGED fillRest

\* line 446
FillReturn ==
    /\ fill.pc = "for"
    /\ fill.idx > Len(fill.bars)
    /\ ~(fill.bts < fill.stop)
    /\ fill' = [fill EXCEPT !.pc = "done"]
    /\ UNCHANGED fillRest

CacheIdle ==
    /\ today = MaxToday
    /\ tbl_pre = "bars"
    /\ date_processed = {}
    /\ table = {}
    /\ pc = "idle"
    /\ caller = "trader"
    /\ start = 0
    /\ stop = 0
    /\ exclusive_end = TRUE
    /\ current = 0
    /\ data = {}
    /\ result = <<>>
    /\ params = {}
    /\ trace = <<>>
    /\ outcome = "none"
    /\ fetched = [d \in Days |-> NoData]
    /\ fetchCalls = [d \in Days |-> 0]
    /\ anyError = FALSE
    /\ fails = 0
    /\ last_call = NoCall

InitFill ==
    /\ CacheIdle
    /\ FillInit
    /\ find = Unused
    /\ sma = Unused
    /\ LaterIdle
    /\ SignalIdle

NextFill ==
    \/ FillBegin
    \/ FillGap
    \/ FillBar
    \/ FillTail
    \/ FillReturn

SpecFill == InitFill /\ [][NextFill]_vars

\* ------------------------------------------------------------ claims C5-C7
CeilDiv(a, b) == (a + b - 1) \div b

FillBucketStart == nearest_bucket(datetime_to_second_offset(fill.start), fill.delta)

FillDone == fill.pc = "done" /\ Len(fill.bars) > 0

\* the input bars are bucket-aligned, pairwise distinct in time, within
\* [start, stop)
FillWellFormedInput ==
    /\ \A i \in 1 .. Len(fill.bars) :
         /\ fill.bars[i].timestamp % fill.delta = 0
         /\ fill.start <= fill.bars[i].timestamp
         /\ fill.bars[i].timestamp < fill.stop
    /\ \A i, j \in 1 .. Len(fill.bars) :
         i # j => fill.bars[i].timestamp # fill.bars[j].timestamp

\* C5: for a non-empty bar list the output of fill_in_sparse_bars has
\* ceil((stop - bucket_start) / w) bars, the number of w-wide buckets in
\* [bucket(start), stop), whatever the bars are.
C5_LengthIsBucketCount ==
    FillDone => Len(fill.result) = CeilDiv(fill.stop - FillBucketStart, fill.delta)

\* C6: for bucket-aligned bars with distinct timestamps inside [start, stop)
\* the output timestamps are strictly increasing, bucket-aligned, and are
\* exactly the bucket boundaries from the bucket of start up to, not
\* including, stop.
C6_EveryBucketOnce ==
    (FillDone /\ FillWellFormedInput) =>
        /\ \A i \in 1 .. Len(fill.result) - 1 :
             fill.result[i].timestamp < fill.result[i + 1].timestamp
        /\ \A i \in 1 .. Len(fill.result) : fill.result[i].timestamp % fill.delta = 0
        /\ {fill.result[i].timestamp : i \in 1 .. Len(fill.result)}
             = {t \in FillBucketStart .. fill.stop - 1 : t % fill.delta = 0}

\* C7: every synthesized bar of the output has volume 0 and open = close =
\* high = low, equal to the close of the bar right before it in the output,
\* real or synthesized (0, the close of the initial placeholder, when the
\* output starts with it).
C7_FillerCarriesClose ==
    \A i \in 1 .. Len(fill.result) :
        fill.result[i].synth =>
            LET b == fill.result[i]
                c == IF i = 1 THEN 0 ELSE fill.result[i - 1].close
            IN  /\ b.volume = 0
                /\ b.open = c
                /\ b.close = c
                /\ b.high = c
                /\ b.low = c

\* a finished run with a filler right behind a real bar and a filler right
\* behind a filler
C7_Witness ==
    /\ fill.pc = "done"
    /\ \E i \in 2 .. Len(fill.result) :
         fill.result[i].synth /\ ~fill.result[i - 1].synth
    /\ \E i \in 3 .. Len(fill.result) :
         fill.result[i].synth /\ fill.result[i - 1].synth /\ ~fill.result[i - 2].synth

\* ----------------------------------------------- find_bars (processing.py)
Trade(ts, count, price) == [timestamp |-> ts, count |-> count, price |-> price]

\* the prices and share counts a trade can have
TradeShapes == {<<1, 1>>, <<2, 2>>, <<3, 1>>}

InputTrades == {Trade(ts, sh[2], sh[1]) : ts \in 0 .. MaxT, sh \in TradeShapes}

InputTradeLists == UNION {[1 .. n -> InputTrades] : n \in 0 .. MaxTrades}

findRest == <<cacheVars, fill, sma, csn, metric, signalVars>>

FindInit ==
    \E w \in Widths, ts \in InputTradeLists :
        find = [pc |-> "call", delta |-> w, trades |-> ts, idx |-> 1,
                start |-> 0, nts |-> 0, bts |-> 0,
                o |-> 0, c |-> 0, l |-> 0, h |-> 0, v |-> 0, ct |-> 0,
                first |-> TRUE, result |-> <<>>]

\* line 494: the trade still belongs to the bucket that is being built
InBucket(sts, nts) == sts <= nts

FindTrade == find.trades[find.idx]

\* a trade that is dropped when it opens a bucket
OpenVolume_Dropped(count) == 0

\* line 525: the volume of a bucket opened by a trade
OpenVolume(count) == count

FindSts == datetime_to_second_offset(FindTrade.timestamp)

\* lines 474-490
FindBegin ==
    /\ find.pc = "call"
    /\ IF Len(find.trades) = 0
         THEN find' = [find EXCEPT !.pc = "done"]
         ELSE LET sorted == SortByTimestamp(find.trades)
                  sinit  == datetime_to_second_offset(sorted[1].timestamp)
                  bucket == nearest_bucket(sinit, find.delta)
              IN  find' = [find EXCEPT !.pc = "for",
                                       !.trades = sorted,
                                       !.start = bucket,
                                       !.nts = bucket + find.delta,
                                       !.bts = bucket]
    /\ UNCHANGED findRest

\* lines 491-506
FindAccumulate ==
    /\ find.pc = "for"
    /\ find.idx <= Len(find.trades)
    /\ InBucket(FindSts, find.nts)
    /\ LET p  == FindTrade.price
           o1 == IF find.first THEN p ELSE find.o
           l1 == IF find.first THEN p ELSE find.l
           h1 == IF find.first THEN p ELSE find.h
       IN  find' = [find EXCEPT !.o = o1,
                                !.l = IF p < l1 THEN p ELSE l1,
                                !.h = IF p > h1 THEN p ELSE h1,
                                !.first = FALSE,
                                !.c = p,
                                !.v = @ + FindTrade.count,
                                !.ct = @ + 1,
                                !.idx = @ + 1]
    /\ UNCHANGED findRest

\* lines 507-513: the bucket that was being built is closed
FindCloseBucket ==
    /\ find.pc = "for"
    /\ find.idx <= Len(find.trades)
    /\ ~InBucket(FindSts, find.nts)
    /\ find' = [find EXCEPT !.result = Append(@, Bar(find.bts, find.o, find.c, find.h,
                                                     find.l, find.v, FALSE)),
                            !.start = find.nts,
                            !.nts = @ + find.delta,
                            !.bts = find.nts,
                            !.pc = "while"]
    /\ UNCHANGED findRest

\* lines 514-520: one turn of the inner while, a bucket without trades
FindGap ==
    /\ find.pc = "while"
    /\ FindSts > find.nts
    /\ find' = [find EXCEPT !.result = Append(@, Bar(find.bts, find.c, find.c, find.c,
                                                     find.c, 0, TRUE)),
                            !.start = find.nts,
                            !.nts = @ + find.delta,
                            !.bts = find.nts]
    /\ UNCHANGED findRest

\* lines 521-526: the trade opens the next bucket
FindOpenBucket ==
    /\ find.pc = "while"
    /\ ~(FindSts > find.nts)
    /\ find' = [find EXCEPT !.o = FindTrade.price,
                            !.l = FindTrade.price,
                            !.h = FindTrade.price,
                            !.c = FindTrade.price,
                            !.v = OpenVolume(FindTrade.count),
                            !.ct = 1,
                            !.idx = @ + 1,
                            !.pc = "for"]
    /\ UNCHANGED findRest

\* lines 527-531
FindFlush ==
    /\ find.pc = "for"
    /\ find.idx > Len(find.trades)
    /\ find' = [find EXCEPT !.result = IF find.ct > 0
                                         THEN Append(@, Bar(find.bts, find.o, find.c,
                                                            find.h, find.l, find.v, FALSE))
                                         ELSE @,
                            !.pc = "done"]
    /\ UNCHANGED findRest

InitFind ==
    /\ CacheIdle
    /\ FindInit
    /\ fill = Unused
    /\ sma = Unused
    /\ LaterIdle
    /\ SignalIdle

NextFind ==
    \/ FindBegin
    \/ FindAccumulate
    \/ FindCloseBucket
    \/ FindGap
    \/ FindOpenBucket
    \/ FindFlush

SpecFind == InitFind /\ [][NextFind]_vars

\* ------------------------------------------------------------ claims C8-C9
FindDone == find.pc = "done" /\ Len(find.trades) > 0

FirstTradeTs == find.trades[1].timestamp

LastTradeTs == find.trades[Len(find.trades)].timestamp

\* C8: for a non-empty list of trades of one day find_bars returns bars for
\* every bucket from the bucket of the earliest trade through the bucket of
\* the latest trade: the first timestamp is offset - offset mod w of the
\* earliest trade, each next timestamp is w later, and the last bar's bucket
\* is the bucket of the latest trade.
C8_CoversFirstToLastBucket ==
    FindDone =>
        /\ Len(find.result) >= 1
        /\ find.result[1].timestamp = nearest_bucket(FirstTradeTs, find.delta)
        /\ \A i \in 1 .. Len(find.result) - 1 :
             find.result[i + 1].timestamp = find.result[i].timestamp + find.delta
        /\ find.result[Len(find.result)].timestamp = nearest_bucket(LastTradeTs, find.delta)

RECURSIVE SumCounts(_)
SumCounts(ts) == IF ts = <<>> THEN 0 ELSE Head(ts).count + SumCounts(Tail(ts))

\* the trades, in time order, whose timestamp lies in [lo, hi)
TradesIn(lo, hi) ==
    SelectSeq(find.trades, LAMBDA t : lo <= t.timestamp /\ t.timestamp < hi)

\* C9: replaying the trades against the buckets [ts, ts + w) of the bars
\* find_bars returned gives the same bars: open and close are the prices of
\* the first and last trade of the bucket, high and low the largest and
\* smallest, volume the sum of the counts; a bar whose bucket holds no trade
\* has volume 0 and the previous bar's close as its four prices.
C9_ReplayReproducesBars ==
    FindDone =>
        \A i \in 1 .. Len(find.result) :
            LET b  == find.result[i]
                ts == TradesIn(b.timestamp, b.timestamp + find.delta)
            IN  IF ts # <<>>
                  THEN /\ b.open = ts[1].price
                       /\ b.close = ts[Len(ts)].price
                       /\ \A k \in 1 .. Len(ts) : ts[k].price <= b.high /\ b.low <= ts[k].price
                       /\ \E k \in 1 .. Len(ts) : ts[k].price = b.high
                       /\ \E k \in 1 .. Len(ts) : ts[k].price = b.low
                       /\ b.volume = SumCounts(ts)
                  ELSE /\ b.volume = 0
                       /\ i > 1
                       /\ LET c == find.result[i - 1].close
                          IN  b.open = c /\ b.close = c /\ b.high = c /\ b.low = c

\* ----------------------------------- create_continuous_sma (processing.py)
\* the closes a series can hold
Closes == {1, 2, 4}

CloseLists == UNION {[1 .. n -> Closes] : n \in 0 .. MaxLen}

RECURSIVE Sum(_)
Sum(xs) == IF xs = <<>> THEN 0 ELSE Head(xs) + Sum(Tail(xs))

\* xs[-k:] for k >= 1: the last k elements, all of xs when it has fewer
LastSlice(xs, k) == SubSeq(xs, IF Len(xs) > k THEN Len(xs) - k + 1 ELSE 1, Len(xs))

\* xs[:k] for k >= 0
FirstSlice(xs, k) == SubSeq(xs, 1, IF k < Len(xs) THEN k ELSE Len(xs))

\* sum(s) / len(s), kept as a fraction
Mean(xs) == [num |-> Sum(xs), den |-> Len(xs)]

\* lines 204-208: the samples averaged for the i-th value (i counts from 1)
SmaSamples(previous_bars, bars, window, i) ==
    IF i < window
      THEN LET diff == window - (i - 1)
           IN  LastSlice(previous_bars, diff) \o FirstSlice(bars, i)
      ELSE SubSeq(bars, i - window + 1, i)

smaRest == <<cacheVars, fill, find, csn, metric, signalVars>>

SmaInit ==
    \E pb \in CloseLists, bs \in CloseLists, w \in 1 .. MaxWindow :
        sma = [pc |-> "call", previous_bars |-> pb, bars |-> bs, window |-> w,
               i |-> 1, result_x |-> <<>>, result_y |-> <<>>]

\* lines 197-201
SmaBegin ==
    /\ sma.pc = "call"
    /\ sma' = [sma EXCEPT !.pc = IF Len(sma.previous_bars) + Len(sma.bars) < sma.window
                                   THEN "done"
                                   ELSE "for"]
    /\ UNCHANGED smaRest

\* lines 203-210: one turn of the loop; times[i - 1] is the i-th time
SmaStep ==
    /\ sma.pc = "for"
    /\ sma.i <= Len(sma.bars)
    /\ LET s == SmaSamples(sma.previous_bars, sma.bars, sma.window, sma.i)
       IN  sma' = [sma EXCEPT !.result_x = Append(@, sma.i),
                              !.result_y = Append(@, Mean(s)),
                              !.i = @ + 1]
    /\ UNCHANGED smaRest

\* line 212
SmaReturn ==
    /\ sma.pc = "for"
    /\ sma.i > Len(sma.bars)
    /\ sma' = [sma EXCEPT !.pc = "done"]
    /\ UNCHANGED smaRest

InitSma ==
    /\ CacheIdle
    /\ SmaInit
    /\ fill = Unused
    /\ find = Unused
    /\ LaterIdle
    /\ SignalIdle

NextSma ==
    \/ SmaBegin
    \/ SmaStep
    \/ SmaReturn

SpecSma == InitSma /\ [][NextSma]_vars

\* --------------------------------------------------------------- claim C10
\* the window the i-th value is to be the mean of: the last window - i
\* values of previous_bars and the first i of bars, or bars[i-window:i]
SmaWindow(i) ==
    IF i < sma.window
      THEN LastSlice(sma.previous_bars, sma.window - i) \o FirstSlice(sma.bars, i)
      ELSE SubSeq(sma.bars, i - sma.window + 1, i)

\* C10: with len(previous_bars) >= window, create_continuous_sma returns one
\* value per input time, the i-th being the mean of exactly window samples:
\* the last window - i values of previous_bars followed by the first i
\* values of bars when i < window, bars[i-window:i] otherwise.
C10_MeanOfWindowSamples ==
    (sma.pc = "done" /\ Len(sma.previous_bars) >= sma.window) =>
        /\ Len(sma.result_y) = Len(sma.bars)
        /\ sma.result_x = [k \in 1 .. Len(sma.bars) |-> k]
        /\ \A i \in 1 .. Len(sma.bars) :
             \* the value equals Sum(window) / window, as fractions
             sma.result_y[i].num * sma.window = Sum(SmaWindow(i)) * sma.result_y[i].den

\* ------------------- create_continuous_ema and create_ema (processing.py)
\* the closes an EMA input can hold, and the smoothing factors
EmaCloses == {1, 2}

Smoothings == {1, 2}

EmaLists == UNION {[1 .. n -> EmaCloses] : n \in 0 .. MaxLen}

\* fill_in_sparse_bars, find_bars and create_continuous_sma are not under
\* study, nor are change_since_news and the metric objects
BarsIdle == fill = Unused /\ find = Unused /\ sma = Unused /\ LaterIdle

\* a float, kept as a fraction
Frac(n, d) == [num |-> n, den |-> d]

FracEq(a, b) == a.num * b.den = b.num * a.den

\* lines 249-251 and 287-289: current * ema_multiplier + previous *
\* (1 - ema_multiplier) with ema_multiplier = smoothing / (1 + window)
EmaOf(previous, cur, window, smoothing) ==
    Frac(cur * smoothing * previous.den + previous.num * (1 + window - smoothing),
         previous.den * (1 + window))

\* the times of a day of n closes that follows k earlier closes
TimesAfter(k, n) == [j \in 1 .. n |-> k + j]

emaRest == <<cacheVars, pureVars, mmet, norm, cross, mann, peak>>

\* day1 is the day before; the caller hands over all of its closes or its
\* last window closes as previous_bars, and the closes of the day as bars
EmaInit ==
    \E d1 \in EmaLists, bs \in EmaLists, w \in 1 .. MaxWindow, sm \in Smoothings,
       whole \in BOOLEAN :
        ema = [pc |-> "call", day1 |-> d1,
               previous_bars |-> IF whole THEN d1 ELSE LastSlice(d1, w),
               times |-> TimesAfter(Len(d1), Len(bs)), bars |-> bs,
               window |-> w, smoothing |-> sm,
               offset |-> 0, previous_ema |-> Frac(0, 1), i |-> 0,
               result_x |-> <<>>, result_y |-> <<>>,
               all_times |-> TimesAfter(0, Len(d1) + Len(bs)), all_bars |-> d1 \o bs,
               all_x |-> <<>>, all_y |-> <<>>]

\* create_continuous_ema, lines 231-247: the early returns and the seed
EmaBegin ==
    /\ ema.pc = "call"
    /\ LET np   == Len(ema.previous_bars)
           diff == ema.window - np
           off  == IF np < ema.window THEN diff ELSE 0
           seed == IF np < ema.window
                     THEN Frac(Sum(ema.previous_bars \o FirstSlice(ema.bars, diff)), ema.window)
                     ELSE Frac(Sum(LastSlice(ema.previous_bars, ema.window)), ema.window)
       IN  IF np + Len(ema.bars) < ema.window
             THEN ema' = [ema EXCEPT !.pc = "returned"]
             ELSE ema' = [ema EXCEPT !.offset = off, !.previous_ema = seed, !.i = off,
                                     !.pc = IF off >= Len(ema.bars) THEN "returned" ELSE "for"]
    /\ UNCHANGED emaRest

\* lines 253-257: one turn of the loop; i counts from 0 as in the source
EmaStep ==
    /\ ema.pc = "for"
    /\ ema.i < Len(ema.bars)
    /\ LET current_ema == EmaOf(ema.previous_ema, ema.bars[ema.i + 1], ema.window, ema.smoothing)
       IN  ema' = [ema EXCEPT !.result_x = Append(@, ema.times[ema.i + 1]),
                              !.result_y = Append(@, current_ema),
                              !.previous_ema = current_ema,
                              !.i = @ + 1]
    /\ UNCHANGED emaRest

\* line 259
EmaReturn ==
    /\ ema.pc = "for"
    /\ ema.i >= Len(ema.bars)
    /\ ema' = [ema EXCEPT !.pc = "returned"]
    /\ UNCHANGED emaRest

\* create_ema over day1 + bars as one series, lines 274-285
PlainBegin ==
    /\ ema.pc = "returned"
    /\ IF Len(ema.all_bars) < ema.window \/ 0 >= Len(ema.all_bars)
         THEN ema' = [ema EXCEPT !.pc = "done"]
         ELSE ema' = [ema EXCEPT !.previous_ema =
                                     Frac(Sum(FirstSlice(ema.all_bars, ema.window)), ema.window),
                                 !.i = ema.window,
                                 !.pc = "plain"]
    /\ UNCHANGED emaRest

\* lines 291-295
PlainStep ==
    /\ ema.pc = "plain"
    /\ ema.i < Len(ema.all_bars)
    /\ LET current_ema == EmaOf(ema.previous_ema, ema.all_bars[ema.i + 1], ema.window, ema.smoothing)
       IN  ema' = [ema EXCEPT !.all_x = Append(@, ema.all_times[ema.i + 1]),
                              !.all_y = Append(@, current_ema),
                              !.previous_ema = current_ema,
                              !.i = @ + 1]
    /\ UNCHANGED emaRest

\* line 297
PlainReturn ==
    /\ ema.pc = "plain"
    /\ ema.i >= Len(ema.all_bars)
    /\ ema' = [ema EXCEPT !.pc = "done"]
    /\ UNCHANGED emaRest

InitEma ==
    /\ CacheIdle
    /\ BarsIdle
    /\ EmaInit
    /\ mmet = Unused
    /\ norm = Unused
    /\ cross = Unused
    /\ mann = Unused
    /\ peak = Unused

NextEma ==
    \/ EmaBegin
    \/ EmaStep
    \/ EmaReturn
    \/ PlainBegin
    \/ PlainStep
    \/ PlainReturn

SpecEma == InitEma /\ [][NextEma]_vars

\* --------------------------------------------------------------- claim C11
\* both runs are over, and previous_bars was exactly day 1's last window
\* closes, day 2 having at least one close
EmaAdjacentDays ==
    /\ ema.pc = "done"
    /\ Len(ema.day1) >= ema.window
    /\ ema.previous_bars = LastSlice(ema.day1, ema.window)
    /\ ema.bars # <<>>

\* C11: for two adjacent days where previous_bars is exactly day 1's last
\* window closes, the first continuous-EMA value of day 2 exists and equals
\* the value at day 2's first timestamp of the EMA computed over day 1 + day 2
\* as one series with the same window and smoothing.
C11_ContinuousEqualsConcatenated ==
    EmaAdjacentDays =>
        /\ ema.result_y # <<>>
        /\ ema.result_x[1] = ema.times[1]
        /\ \E j \in 1 .. Len(ema.all_x) :
             /\ ema.all_x[j] = ema.times[1]
             /\ FracEq(ema.all_y[j], ema.result_y[1])

\* --------------------------------------------------------------- claim C12
\* C12: whenever len(previous_bars) + len(bars) >= window and bars is not
\* empty, create_continuous_ema returns exactly len(bars) points, the first
\* at times[0]; it returns the empty series only when
\* len(previous_bars) + len(bars) < window.
C12_NoWarmUpGap ==
    (ema.pc = "returned" /\ ema.bars # <<>>) =>
        IF Len(ema.previous_bars) + Len(ema.bars) >= ema.window
          THEN /\ Len(ema.result_y) = Len(ema.bars)
               /\ ema.result_x = ema.times
          ELSE ema.result_x = <<>> /\ ema.result_y = <<>>

\* ------------------------- MACDStockMetric.process_data (utils/metrics.py)
\* the values an EMA series can hold; only their differences matter here
EmaValues == {1, 3}

\* EMAStockMetric.process_data, line 153: len(data.previous_closes[:-window])
PreviousLen(nprev, window) == IF nprev > window THEN nprev - window ELSE 0

\* create_continuous_ema, lines 231-247: how many leading times the series
\* of an EMA metric lacks; all n of them when it is empty
EmaOffset(nprev, n, window) ==
    LET np  == PreviousLen(nprev, window)
        off == IF np < window THEN window - np ELSE 0
    IN  IF np + n < window \/ off >= n THEN n ELSE off

\* the series of an EMA metric over data.times: the times behind its offset
\* and one value for each
EmaSeries(times, off) ==
    LET ts == SubSeq(times, off + 1, Len(times))
    IN  {[x |-> ts, y |-> ys] : ys \in [1 .. Len(ts) -> EmaValues]}

StartsDiffer_Never(dat, dbt) == FALSE

\* line 178
StartsDiffer(dat, dbt) == dat[1] # dbt[1]

mmetRest == <<cacheVars, pureVars, ema, norm, cross, mann, peak>>

\* ema_a and ema_b are EMA metrics of two windows over the same data
MmetInit ==
    \E nprev \in 0 .. MaxPrev, n \in 0 .. MaxLen, wa \in 1 .. MaxWindow, wb \in 1 .. MaxWindow :
        \E a \in EmaSeries(TimesAfter(0, n), EmaOffset(nprev, n, wa)),
           b \in EmaSeries(TimesAfter(0, n), EmaOffset(nprev, n, wb)) :
            mmet = [pc |-> "call", window_a |-> wa, window_b |-> wb,
                    dat |-> a.x, day |-> a.y, dbt |-> b.x, dby |-> b.y,
                    i |-> 0, macd |-> <<>>, outcome |-> "none"]

\* lines 175-179: dat[0] and dbt[0] raise IndexError on an empty series
MmetCheck ==
    /\ mmet.pc = "call"
    /\ IF mmet.dat = <<>> \/ mmet.dbt = <<>>
         THEN mmet' = [mmet EXCEPT !.pc = "done", !.outcome = "raised"]
         ELSE IF StartsDiffer(mmet.dat, mmet.dbt)
                THEN mmet' = [mmet EXCEPT !.pc = "done", !.outcome = "raised"]
                ELSE mmet' = [mmet EXCEPT !.pc = "diff"]
    /\ UNCHANGED mmetRest

\* line 181: one element of the comprehension; dby[i] raises IndexError
\* when dby is the shorter series
MmetStep ==
    /\ mmet.pc = "diff"
    /\ mmet.i < Len(mmet.dat)
    /\ IF mmet.i >= Len(mmet.dby)
         THEN mmet' = [mmet EXCEPT !.pc = "done", !.outcome = "raised"]
         ELSE mmet' = [mmet EXCEPT !.macd = Append(@, mmet.day[mmet.i + 1] - mmet.dby[mmet.i + 1]),
                                   !.i = @ + 1]
    /\ UNCHANGED mmetRest

\* line 183
MmetReturn ==
    /\ mmet.pc = "diff"
    /\ mmet.i >= Len(mmet.dat)
    /\ mmet' = [mmet EXCEPT !.pc = "done", !.outcome = "returned"]
    /\ UNCHANGED mmetRest

InitMmet ==
    /\ CacheIdle
    /\ BarsIdle
    /\ MmetInit
    /\ ema = Unused
    /\ norm = Unused
    /\ cross = Unused
    /\ mann = Unused
    /\ peak = Unused

NextMmet ==
    \/ MmetCheck
    \/ MmetStep
    \/ MmetReturn

SpecMmet == InitMmet /\ [][NextMmet]_vars

\* --------------------------------------------------------------- claim C13
\* the two series have no common first timestamp
NoCommonStart ==
    \/ mmet.dat = <<>>
    \/ mmet.dbt = <<>>
    \/ mmet.dat[1] # mmet.dbt[1]

\* C13: MACDStockMetric.process_data raises whenever the fast and the slow
\* EMA series do not start at the same timestamp; otherwise it returns, on
\* the fast EMA's times, value[i] = fast[i] - slow[i] where fast[i] and
\* slow[i] belong to the same timestamp for every i.
C13_RaisesOrAligned ==
    mmet.pc = "done" =>
        IF NoCommonStart
          THEN mmet.outcome = "raised"
          ELSE /\ mmet.outcome = "returned"
               /\ Len(mmet.macd) = Len(mmet.dat)
               /\ \A i \in 1 .. Len(mmet.dat) :
                    /\ i <= Len(mmet.dbt)
                    /\ mmet.dbt[i] = mmet.dat[i]
                    /\ mmet.macd[i] = mmet.day[i] - mmet.dby[i]

\* the raise on two non-empty series of different starts
C13_Witness ==
    /\ mmet.pc = "done"
    /\ mmet.outcome = "raised"
    /\ mmet.dat # <<>>
    /\ mmet.dbt # <<>>
    /\ mmet.dat[1] # mmet.dbt[1]

\* ------ calculate_normalized_derivatives, normalize_bipolar (processing.py)
\* floats are fractions with a positive denominator
FracLess(a, b) == a.num * b.den < b.num * a.den

FracNeg(a) == Frac(0 - a.num, a.den)

\* a / b for b # 0
FracDiv(a, b) ==
    IF b.num > 0
      THEN Frac(a.num * b.den, a.den * b.num)
      ELSE Frac(0 - a.num * b.den, a.den * (0 - b.num))

Zero == Frac(0, 1)

\* min(data) and max(data) of a non-empty list
Min(xs) == CHOOSE m \in {xs[i] : i \in 1 .. Len(xs)} :
               \A i \in 1 .. Len(xs) : ~FracLess(xs[i], m)

Max(xs) == CHOOSE m \in {xs[i] : i \in 1 .. Len(xs)} :
               \A i \in 1 .. Len(xs) : ~FracLess(m, xs[i])

\* lines 307-310
FirstDerivative(times, xs) ==
    [i \in 1 .. (IF Len(xs) > 1 THEN Len(xs) - 1 ELSE 0) |->
        Frac(xs[i + 1] - xs[i], times[i + 1] - times[i])]

\* lines 312-316
SecondDerivative(times, xs) ==
    [i \in 1 .. (IF Len(xs) > 2 THEN Len(xs) - 2 ELSE 0) |->
        Frac(xs[i + 2] - 2 * xs[i + 1] + xs[i],
             (times[i + 2] - times[i + 1]) * (times[i + 2] - times[i + 1]))]

\* line 383: some element divides by a zero max or a zero min
DividesByZero(xs) ==
    /\ xs # <<>>
    /\ ~FracEq(Max(xs), Min(xs))
    /\ \E i \in 1 .. Len(xs) :
         IF FracLess(Zero, xs[i]) THEN Max(xs).num = 0 ELSE Min(xs).num = 0

\* lines 378-383, for a list that does not divide by zero
normalize_bipolar(xs) ==
    IF xs = <<>>
      THEN <<>>
      ELSE LET mn == Min(xs)
               mx == Max(xs)
           IN  IF ~FracEq(mx, mn)
                 THEN [i \in 1 .. Len(xs) |->
                          IF FracLess(Zero, xs[i])
                            THEN FracDiv(xs[i], mx)
                            ELSE FracNeg(FracDiv(xs[i], mn))]
                 ELSE [i \in 1 .. Len(xs) |-> Zero]

\* strictly increasing times of n bars within the day
IncreasingTimes(n) ==
    {ts \in [1 .. n -> 0 .. MaxT] : \A i \in 1 .. n - 1 : ts[i] < ts[i + 1]}

normRest == <<cacheVars, pureVars, ema, mmet, cross, mann, peak>>

NormInit ==
    \E xs \in CloseLists :
        \E ts \in IncreasingTimes(Len(xs)) :
            norm = [pc |-> "call", times |-> ts, data |-> xs,
                    d1 |-> <<>>, d2 |-> <<>>, n1 |-> <<>>, n2 |-> <<>>,
                    outcome |-> "none"]

\* line 330
NormDerivatives ==
    /\ norm.pc = "call"
    /\ norm' = [norm EXCEPT !.d1 = FirstDerivative(norm.times, norm.data),
                            !.d2 = SecondDerivative(norm.times, norm.data),
                            !.pc = "first"]
    /\ UNCHANGED normRest

\* line 331, normalize_bipolar(d1)
NormFirst ==
    /\ norm.pc = "first"
    /\ IF DividesByZero(norm.d1)
         THEN norm' = [norm EXCEPT !.pc = "done", !.outcome = "raised"]
         ELSE norm' = [norm EXCEPT !.n1 = normalize_bipolar(norm.d1), !.pc = "second"]
    /\ UNCHANGED normRest

\* line 331, normalize_bipolar(d2) and the return
NormSecond ==
    /\ norm.pc = "second"
    /\ IF DividesByZero(norm.d2)
         THEN norm' = [norm EXCEPT !.pc = "done", !.outcome = "raised"]
         ELSE norm' = [norm EXCEPT !.n2 = normalize_bipolar(norm.d2), !.pc = "done",
                                   !.outcome = "returned"]
    /\ UNCHANGED normRest

InitNorm ==
    /\ CacheIdle
    /\ BarsIdle
    /\ NormInit
    /\ ema = Unused
    /\ mmet = Unused
    /\ cross = Unused
    /\ mann = Unused
    /\ peak = Unused

NextNorm ==
    \/ NormDerivatives
    \/ NormFirst
    \/ NormSecond

SpecNorm == InitNorm /\ [][NextNorm]_vars

\* --------------------------------------------------------------- claim C14
\* every value of a normalized series lies in [-1, 1]; a series of equal
\* values is mapped to zeros
Bipolar(xs, ns) ==
    /\ Len(ns) = Len(xs)
    /\ \A i \in 1 .. Len(ns) :
         /\ ~FracLess(ns[i], Frac(-1, 1))
         /\ ~FracLess(Frac(1, 1), ns[i])
    /\ (xs # <<>> /\ FracEq(Max(xs), Min(xs))) => \A i \in 1 .. Len(ns) : ns[i].num = 0

\* C14: normalize_bipolar returns for every non-empty series, with values in
\* [-1, 1] when max # min and all zeros when the inputs are equal; it never
\* divides by zero, so calculate_normalized_derivatives does not raise on
\* strictly increasing times.
C14_NormalizedNeverRaises ==
    norm.pc = "done" =>
        /\ norm.outcome = "returned"
        /\ Bipolar(norm.d1, norm.n1)
        /\ Bipolar(norm.d2, norm.n2)

\* ------------------- detect_macd_signal_crossover (annotations/macd.py)
\* the values a MACD or signal sample can hold
CrossValues == {1, 2, 3}

CrossSeries == [1 .. MaxLen -> CrossValues]

\* lines 23-44; the indices count from 0 as in the source
detect_macd_signal_crossover_TieNegative(macd_idx, macd, signal_idx, signal) ==
    IF macd_idx = 0 \/ signal_idx = 0
      THEN "NONE"
      ELSE LET pm == macd[macd_idx]
               ps == signal[signal_idx]
               cm == macd[macd_idx + 1]
               cs == signal[signal_idx + 1]
           IN  IF pm = ps THEN "NONE"
               ELSE IF cm = cs THEN "NEGATIVE"
               ELSE IF pm > ps THEN (IF cm < cs THEN "NEGATIVE" ELSE "NONE")
               ELSE IF cm > cs THEN "POSITIVE" ELSE "NONE"

detect_macd_signal_crossover(macd_idx, macd, signal_idx, signal) ==
    IF macd_idx = 0 \/ signal_idx = 0
      THEN "NONE"
      ELSE LET pm == macd[macd_idx]
               ps == signal[signal_idx]
               cm == macd[macd_idx + 1]
               cs == signal[signal_idx + 1]
           IN  IF pm = ps THEN "NONE"
               ELSE IF cm = cs THEN (IF pm > ps THEN "NEGATIVE" ELSE "POSITIVE")
               ELSE IF pm > ps THEN (IF cm < cs THEN "NEGATIVE" ELSE "NONE")
               ELSE IF cm > cs THEN "POSITIVE" ELSE "NONE"

crossRest == <<cacheVars, pureVars, ema, mmet, norm, mann, peak>>

CrossInit ==
    \E m \in CrossSeries, sg \in CrossSeries,
       mi \in 0 .. MaxLen - 1, si \in 0 .. MaxLen - 1 :
        cross = [pc |-> "call", macd_idx |-> mi, macd |-> m,
                 signal_idx |-> si, signal |-> sg,
                 result |-> "none", swapped |-> "none"]

\* the call detect_macd_signal_crossover(macd_idx, macd, signal_idx, signal)
CrossDetect ==
    /\ cross.pc = "call"
    /\ cross' = [cross EXCEPT !.result = detect_macd_signal_crossover(
                                             cross.macd_idx, cross.macd,
                                             cross.signal_idx, cross.signal),
                              !.pc = "swap"]
    /\ UNCHANGED crossRest

\* the same call with the two series in each other's place
CrossDetectSwapped ==
    /\ cross.pc = "swap"
    /\ cross' = [cross EXCEPT !.swapped = detect_macd_signal_crossover(
                                              cross.signal_idx, cross.signal,
                                              cross.macd_idx, cross.macd),
                              !.pc = "done"]
    /\ UNCHANGED crossRest

InitCross ==
    /\ CacheIdle
    /\ BarsIdle
    /\ CrossInit
    /\ ema = Unused
    /\ mmet = Unused
    /\ norm = Unused
    /\ mann = Unused
    /\ peak = Unused

NextCross ==
    \/ CrossDetect
    \/ CrossDetectSwapped

SpecCross == InitCross /\ [][NextCross]_vars

\* --------------------------------------------------------------- claim C15
Flip(r) == IF r = "POSITIVE" THEN "NEGATIVE" ELSE IF r = "NEGATIVE" THEN "POSITIVE" ELSE r

\* C15: with both indices >= 1, the result is NEGATIVE when MACD was above
\* the signal and is now below it, POSITIVE for the reverse transition, and
\* exchanging the two series turns POSITIVE into NEGATIVE, NEGATIVE into
\* POSITIVE and leaves NONE unchanged.
C15_CrossoverSymmetry ==
    (cross.pc = "done" /\ cross.macd_idx >= 1 /\ cross.signal_idx >= 1) =>
        LET pm == cross.macd[cross.macd_idx]
            ps == cross.signal[cross.signal_idx]
            cm == cross.macd[cross.macd_idx + 1]
            cs == cross.signal[cross.signal_idx + 1]
        IN  /\ (pm > ps /\ cm < cs) => cross.result = "NEGATIVE"
            /\ (pm < ps /\ cm > cs) => cross.result = "POSITIVE"
            /\ cross.swapped = Flip(cross.result)

\* a tie at the current sample after MACD was below the signal: POSITIVE,
\* and NEGATIVE with the series exchanged
C15_Witness ==
    /\ cross.pc = "done"
    /\ cross.macd_idx >= 1
    /\ cross.signal_idx >= 1
    /\ cross.macd_idx # cross.signal_idx
    /\ cross.macd[cross.macd_idx + 1] = cross.signal[cross.signal_idx + 1]
    /\ cross.result = "POSITIVE"
    /\ cross.swapped = "NEGATIVE"

\* ------------------------------- MACDAnnotator.annotate (annotations/macd.py)
\* the metrics the annotator reads from the map it is given
MacdMetrics == {"macd", "signal", "ema_26_2"}

\* a metric name 'ema_<window>_<smoothing>' as EMA_SETUP_REGEX reads it,
\* float(smoothing) being kept in tenths
EmaName(window, smoothing) == [kind |-> "ema", window |-> window, smoothing |-> smoothing]

\* annotator.py, lines 630-633: ema_12_2, ema_26_2, macd, signal
DefaultMetrics ==
    <<EmaName(12, 20), EmaName(26, 20), [kind |-> "macd"], [kind |-> "signal"]>>

\* f'{smoothing:.1f}' of a smoothing in tenths
OneDecimal(x) == ToString(x \div 10) \o "." \o ToString(x % 10)

\* metric_setup.py, line 66: the key setup_ema stores the metric under
setup_ema(name) == "ema_" \o ToString(name.window) \o "_" \o OneDecimal(name.smoothing)

\* metric_setup.py, lines 57-66, 77-93, 104-118: the keys of metric_dict
\* after the setup function of a name has run, raised when it raises
setup(name, dict) ==
    IF dict.raised
      THEN dict
    ELSE IF name.kind = "ema"
      THEN [dict EXCEPT !.keys = @ \cup {setup_ema(name)}]
    ELSE IF name.kind = "macd"
      THEN IF "ema_12_2.0" \notin dict.keys \/ "ema_26_2.0" \notin dict.keys
             THEN [dict EXCEPT !.raised = TRUE]
             ELSE [dict EXCEPT !.keys = @ \cup {"macd"}]
    ELSE IF "macd" \notin dict.keys
      THEN [dict EXCEPT !.raised = TRUE]
      ELSE [dict EXCEPT !.keys = @ \cup {"signal"}]

RECURSIVE metric_dict(_)
\* annotator.py, lines 81 and 137-150: the map built from the metric names
metric_dict(metrics) ==
    IF metrics = <<>>
      THEN [keys |-> {}, raised |-> FALSE]
      ELSE setup(metrics[Len(metrics)], metric_dict(SubSeq(metrics, 1, Len(metrics) - 1)))

\* the maps a call is given: any part of what the annotator reads, and the
\* map of the default names
MetricMaps == (SUBSET MacdMetrics) \cup {metric_dict(DefaultMetrics).keys}

\* the values of macd_raw; signal_raw is flat at the middle one
MacdValues == {1, 2, 3}

SignalValue == 2

\* the signs a normalized derivative of the EMA can have, the same at every sample
DerivativeSigns == {-1, 1}

\* signal_line.module.window
SignalWindows == {1, 2}

\* xs[k] of the source, k >= 0
At(xs, k) == xs[k + 1]

Flat(n, v) == [j \in 1 .. n |-> v]

Action(idx, action) == [idx |-> idx, action |-> action]

\* the arguments of a call that finds every metric: macd has the length of
\* the bars or lacks the first one, the signal line is create_ema of macd and
\* lacks window more, the derivatives of the EMA lack one and two
MannArguments ==
    {[start |-> st, nbars |-> MacdBars, window |-> w, macd_raw |-> m,
      signal_raw |-> Flat(Len(m) - w, SignalValue),
      ema_d1 |-> Flat(Len(m) - 1, s1), ema_d2 |-> Flat(Len(m) - 2, s2)] :
        st \in 0 .. 1, w \in SignalWindows,
        m \in [1 .. MacdBars -> MacdValues] \cup [1 .. MacdBars - 1 -> MacdValues],
        s1 \in DerivativeSigns, s2 \in DerivativeSigns}

\* the arguments of a call whose map lacks a metric; they are not read
MannNoArguments ==
    {[start |-> 0, nbars |-> MacdBars, window |-> 1, macd_raw |-> <<>>,
      signal_raw |-> <<>>, ema_d1 |-> <<>>, ema_d2 |-> <<>>]}

mannRest == <<cacheVars, pureVars, ema, mmet, norm, cross, peak>>

MannInit ==
    \E keys \in MetricMaps :
        \E a \in IF keys = MacdMetrics THEN MannArguments ELSE MannNoArguments :
            mann = [pc |-> "call", metrics |-> keys, start |-> a.start, nbars |-> a.nbars,
                    window |-> a.window, macd_raw |-> a.macd_raw, signal_raw |-> a.signal_raw,
                    ema_d1 |-> a.ema_d1, ema_d2 |-> a.ema_d2,
                    macd_offset |-> 0, bi |-> 0, holding |-> FALSE,
                    last_buy |-> -1, last_sell |-> -1, result |-> <<>>, outcome |-> "none"]

\* lines 52-77: line 53 raises without macd or signal, line 55 raises
\* KeyError without ema_26_2
MannBegin ==
    /\ mann.pc = "call"
    /\ IF "macd" \notin mann.metrics \/ "signal" \notin mann.metrics
            \/ "ema_26_2" \notin mann.metrics
         THEN mann' = [mann EXCEPT !.pc = "done", !.outcome = "raised"]
         ELSE mann' = [mann EXCEPT !.pc = "for",
                                   !.macd_offset = IF Len(mann.macd_raw) < mann.nbars
                                                     THEN mann.nbars - Len(mann.macd_raw)
                                                     ELSE 0]
    /\ UNCHANGED mannRest

\* line 80
MannIdx == mann.start + mann.bi - mann.macd_offset

\* lines 94 and 98: 0 < idx < len(data.bars) - 1
MannInside(idx) == 0 < idx /\ idx < mann.nbars - 1

\* lines 94 and 98 read ema_d2[idx-1] first, and ema_d1[idx-1] when the test
\* of ema_d2 fails
MannIndexError(idx, sign) ==
    \/ idx - 1 >= Len(mann.ema_d2)
    \/ /\ At(mann.ema_d2, idx - 1) * sign <= 0
       /\ idx - 1 >= Len(mann.ema_d1)

MannSlope(idx, sign) ==
    \/ At(mann.ema_d2, idx - 1) * sign > 0
    \/ At(mann.ema_d1, idx - 1) * sign > 0

\* line 93: the cooldown after the last buy
MannCooldownOver(idx) == mann.last_buy < 0 \/ idx - mann.last_buy > Cooldown

\* lines 79-83: a bar before the signal line has window samples
MannSkip ==
    /\ mann.pc = "for"
    /\ mann.start + mann.bi < mann.nbars
    /\ MannIdx < mann.window
    /\ mann' = [mann EXCEPT !.bi = @ + 1]
    /\ UNCHANGED mannRest

\* lines 85-99: one turn of the loop
MannTurn ==
    /\ mann.pc = "for"
    /\ mann.start + mann.bi < mann.nbars
    /\ MannIdx >= mann.window
    /\ LET idx       == MannIdx
           crossover == detect_macd_signal_crossover(idx, mann.macd_raw,
                                                     idx - mann.window, mann.signal_raw)
       IN  IF crossover = "NONE"
             THEN mann' = [mann EXCEPT !.bi = @ + 1]
           ELSE IF crossover = "POSITIVE" /\ MannCooldownOver(idx)
             THEN IF ~MannInside(idx)
                    THEN mann' = [mann EXCEPT !.bi = @ + 1]
                  ELSE IF MannIndexError(idx, 1)
                    THEN mann' = [mann EXCEPT !.pc = "done", !.outcome = "raised"]
                  ELSE IF MannSlope(idx, 1)
                    THEN mann' = [mann EXCEPT !.result = Append(@, Action(idx, "BUY_HALF")),
                                              !.holding = TRUE,
                                              !.bi = @ + 1]
                  ELSE mann' = [mann EXCEPT !.bi = @ + 1]
           ELSE IF crossover = "NEGATIVE" /\ mann.holding
             THEN IF ~MannInside(idx)
                    THEN mann' = [mann EXCEPT !.bi = @ + 1]
                  ELSE IF MannIndexError(idx, -1)
                    THEN mann' = [mann EXCEPT !.pc = "done", !.outcome = "raised"]
                  ELSE IF MannSlope(idx, -1)
                    THEN mann' = [mann EXCEPT !.result = Append(@, Action(idx, "SELL_HALF")),
                                              !.bi = @ + 1]
                  ELSE mann' = [mann EXCEPT !.bi = @ + 1]
           ELSE mann' = [mann EXCEPT !.bi = @ + 1]
    /\ UNCHANGED mannRest

\* line 101
MannReturn ==
    /\ mann.pc = "for"
    /\ mann.start + mann.bi >= mann.nbars
    /\ mann' = [mann EXCEPT !.pc = "done", !.outcome = "returned"]
    /\ UNCHANGED mannRest

InitMann ==
    /\ CacheIdle
    /\ BarsIdle
    /\ MannInit
    /\ ema = Unused
    /\ mmet = Unused
    /\ norm = Unused
    /\ cross = Unused
    /\ peak = Unused

NextMann ==
    \/ MannBegin
    \/ MannSkip
    \/ MannTurn
    \/ MannReturn

SpecMann == InitMann /\ [][NextMann]_vars

\* --------------------------------------------------------------- claim C16
\* C16: BUY_HALF is emitted on a POSITIVE crossover only when it is not within
\* 10 bars of the last buy: any two BUY_HALF annotations of an output are
\* more than 10 bars apart.
C16_BuysMoreThanTenApart ==
    \A a \in 1 .. Len(mann.result), b \in 1 .. Len(mann.result) :
        (a < b /\ mann.result[a].action = "BUY_HALF" /\ mann.result[b].action = "BUY_HALF")
            => mann.result[b].idx - mann.result[a].idx > Cooldown

\* ------------------------- PeakAnnotator.annotate (annotations/inflection.py)
\* Normalized derivatives and trough_limit are kept in hundredths.
\* the windows of the SMA metrics of the map: two, three, and three whose
\* slowest needs more bars than there are
PeakWindowSets == {{1, 2}, {1, 2, 3}, {1, 2, PeakBars}}

\* line 21: sorted(smas, key=window)
RECURSIVE Ascending(_)
Ascending(S) ==
    IF S = {}
      THEN <<>>
      ELSE LET m == CHOOSE x \in S : \A y \in S : x <= y
           IN  <<m>> \o Ascending(S \ {m})

\* the closes of the bars
PeakCloses == {100, 102}

\* first derivative of the fast SMA: flat, or falling steeply
FastSlopes == {0, -50}

\* first derivative of the slow SMA: flat, or rising steeply
SlowSlopes == {0, 50}

\* second derivative of the mid SMA
MidCurvatures == {-50, 50}

\* second derivative of the slow SMA: barely positive, or strongly
SlowCurvatures == {5, 50}

\* xs[k] of the source for any k: a negative index counts from the end
PyAt(xs, k) == IF k >= 0 THEN xs[k + 1] ELSE xs[Len(xs) + k + 1]

Abs(x) == IF x < 0 THEN 0 - x ELSE x

\* the arguments of a scan: the derivatives of an SMA have one and two
\* values fewer than there are bars
PeakArguments ==
    {[start |-> st, closes |-> cs, fast_d1 |-> f,
      slow_d1 |-> Flat(PeakBars - 1, sl), mid_d2 |-> Flat(PeakBars - 2, m2),
      slow_d2 |-> Flat(PeakBars - 2, s2)] :
        st \in 0 .. 1, cs \in [1 .. PeakBars -> PeakCloses],
        f \in [1 .. PeakBars - 1 -> FastSlopes],
        sl \in SlowSlopes, m2 \in MidCurvatures, s2 \in SlowCurvatures}

\* the arguments of a call that returns before the scan
PeakNoArguments ==
    {[start |-> 0, closes |-> Flat(PeakBars, 100), fast_d1 |-> Flat(PeakBars - 1, 0),
      slow_d1 |-> Flat(PeakBars - 1, 0), mid_d2 |-> Flat(PeakBars - 2, 50),
      slow_d2 |-> Flat(PeakBars - 2, 50)]}

\* line 23
TooFew(swin, nbars) == Len(swin) < 3 \/ nbars < swin[Len(swin)] + 2

peakRest == <<cacheVars, pureVars, ema, mmet, norm, cross, mann>>

PeakInit ==
    \E ws \in PeakWindowSets :
        \E a \in IF TooFew(Ascending(ws), PeakBars) THEN PeakNoArguments ELSE PeakArguments :
            peak = [pc |-> "call", windows |-> ws, swin |-> <<>>, start |-> a.start,
                    closes |-> a.closes, fast_d1 |-> a.fast_d1, slow_d1 |-> a.slow_d1,
                    mid_d2 |-> a.mid_d2, slow_d2 |-> a.slow_d2,
                    trough_limit |-> TroughLimit,
                    i |-> 0, holding |-> FALSE, last_buy |-> -1, last_sell |-> -1,
                    result |-> <<>>, outcome |-> "none"]

\* lines 20-33
PeakBegin ==
    /\ peak.pc = "call"
    /\ LET swin == Ascending(peak.windows)
       IN  IF TooFew(swin, Len(peak.closes))
             THEN peak' = [peak EXCEPT !.swin = swin, !.pc = "done", !.outcome = "returned"]
             ELSE peak' = [peak EXCEPT !.swin = swin, !.pc = "for", !.i = peak.start]
    /\ UNCHANGED peakRest

PeakInLoop == peak.pc = "for" /\ peak.i < Len(peak.closes)

\* line 36
Ad1l(i) == Abs(PyAt(peak.fast_d1, i - peak.swin[1]))

\* line 38, second operand
SlowD1(i) == PyAt(peak.slow_d1, i - peak.swin[Len(peak.swin)])

\* line 38
BuyCond_AlsoHolding(holding, ad1l, slow, trough_limit) ==
    ad1l < trough_limit /\ trough_limit < slow

BuyCond(holding, ad1l, slow, trough_limit) ==
    ~holding /\ ad1l < trough_limit /\ trough_limit < slow

PeakBuys == BuyCond(peak.holding, Ad1l(peak.i), SlowD1(peak.i), peak.trough_limit)

\* line 44
PeakWaits == ~peak.holding \/ (peak.holding /\ peak.i - peak.last_buy < HoldBars)

\* lines 47-49: (a - b) / b >= 0.01 for closes a, b > 0
GainedOnePercent(a, b) == (a - b) * 100 >= GatePercent * b

ChangeSinceBuy == GainedOnePercent(At(peak.closes, peak.i), At(peak.closes, peak.last_buy))

ChangeSinceSell ==
    IF peak.last_sell < 0
      THEN TRUE
      ELSE GainedOnePercent(At(peak.closes, peak.i), At(peak.closes, peak.last_sell))

\* lines 51-52
SellHalfCond == ChangeSinceSell /\ ChangeSinceBuy /\ Ad1l(peak.i) < peak.trough_limit

\* line 57
AtFinalBar == peak.i = Len(peak.closes) - 1 /\ peak.holding

\* lines 63-64
D2m(i) == PyAt(peak.mid_d2, i - peak.swin[2])

D2h(i) == PyAt(peak.slow_d2, i - peak.swin[Len(peak.swin)])

\* lines 66-67
SellAllCond ==
    /\ ChangeSinceSell
    /\ ChangeSinceBuy
    /\ D2m(peak.i) < 0
    /\ 0 < D2h(peak.i)
    /\ D2h(peak.i) < peak.trough_limit
    /\ Ad1l(peak.i) < peak.trough_limit

\* lines 38-42
PeakBuy ==
    /\ PeakInLoop
    /\ PeakBuys
    /\ peak' = [peak EXCEPT !.result = Append(@, Action(peak.i, "BUY_HALF")),
                            !.holding = TRUE,
                            !.last_buy = peak.i,
                            !.i = @ + 1]
    /\ UNCHANGED peakRest

\* lines 44-45
PeakWait ==
    /\ PeakInLoop
    /\ ~PeakBuys
    /\ PeakWaits
    /\ peak' = [peak EXCEPT !.i = @ + 1]
    /\ UNCHANGED peakRest

\* lines 47-55
PeakSellHalf ==
    /\ PeakInLoop
    /\ ~PeakBuys
    /\ ~PeakWaits
    /\ SellHalfCond
    /\ peak' = [peak EXCEPT !.result = Append(@, Action(peak.i, "SELL_HALF")),
                            !.last_sell = peak.i,
                            !.i = @ + 1]
    /\ UNCHANGED peakRest

\* lines 57-61
PeakFinalSellAll ==
    /\ PeakInLoop
    /\ ~PeakBuys
    /\ ~PeakWaits
    /\ ~SellHalfCond
    /\ AtFinalBar
    /\ peak' = [peak EXCEPT !.result = Append(@, Action(peak.i, "SELL_ALL")),
                            !.holding = FALSE,
                            !.last_sell = peak.i,
                            !.i = @ + 1]
    /\ UNCHANGED peakRest

\* lines 63-70
PeakCurvature ==
    /\ PeakInLoop
    /\ ~PeakBuys
    /\ ~PeakWaits
    /\ ~SellHalfCond
    /\ ~AtFinalBar
    /\ IF SellAllCond
         THEN peak' = [peak EXCEPT !.result = Append(@, Action(peak.i, "SELL_ALL")),
                                   !.holding = FALSE,
                                   !.last_sell = peak.i,
                                   !.i = @ + 1]
         ELSE peak' = [peak EXCEPT !.i = @ + 1]
    /\ UNCHANGED peakRest

\* line 72
PeakReturn ==
    /\ peak.pc = "for"
    /\ peak.i >= Len(peak.closes)
    /\ peak' = [peak EXCEPT !.pc = "done", !.outcome = "returned"]
    /\ UNCHANGED peakRest

InitPeak ==
    /\ CacheIdle
    /\ BarsIdle
    /\ PeakInit
    /\ ema = Unused
    /\ mmet = Unused
    /\ norm = Unused
    /\ cross = Unused
    /\ mann = Unused

NextPeak ==
    \/ PeakBegin
    \/ PeakBuy
    \/ PeakWait
    \/ PeakSellHalf
    \/ PeakFinalSellAll
    \/ PeakCurvature
    \/ PeakReturn

SpecPeak == InitPeak /\ [][NextPeak]_vars

\* either annotator, as the caller of Annotator.annotate picks one
InitAnnotators ==
    /\ CacheIdle
    /\ BarsIdle
    /\ ema = Unused
    /\ mmet = Unused
    /\ norm = Unused
    /\ cross = Unused
    /\ \/ MannInit /\ peak = Unused
       \/ PeakInit /\ mann = Unused

NextAnnotators ==
    \/ NextMann
    \/ NextPeak

SpecAnnotators == InitAnnotators /\ [][NextAnnotators]_vars

\* --------------------------------------------------------------- claim C17
IsBuy(a) == a.action \in {"BUY_HALF", "BUY_ALL"}

IsSell(a) == a.action \in {"SELL_HALF", "SELL_ALL"}

\* C17: in every output of PeakAnnotator.annotate, for every input and every
\* start index, two BUY actions never occur without a SELL_HALF or SELL_ALL
\* between them.
C17_NoBuyAfterBuy ==
    peak.pc \in {"for", "done"} =>
        \A a \in 1 .. Len(peak.result), b \in 1 .. Len(peak.result) :
            (a < b /\ IsBuy(peak.result[a]) /\ IsBuy(peak.result[b]))
                => \E c \in a + 1 .. b - 1 : IsSell(peak.result[c])

\* the scan bought, and at a later bar the fast SMA was flat again with the
\* slow one rising: the bar at which a second buy would be made
C17_Witness ==
    /\ peak.pc = "done"
    /\ \E a \in 1 .. Len(peak.result) :
         /\ peak.result[a].action = "BUY_HALF"
         /\ \E i \in peak.result[a].idx + 1 .. Len(peak.closes) - 2 :
              /\ Ad1l(i) < peak.trough_limit
              /\ peak.trough_limit < SlowD1(i)

\* --------------------------------------------------------------- claim C18
\* the output has a BUY_HALF with no SELL_ALL at an earlier bar than the last
StillHoldingAtFinalBar ==
    \E a \in 1 .. Len(peak.result) :
        /\ peak.result[a].action = "BUY_HALF"
        /\ ~\E b \in a + 1 .. Len(peak.result) :
              /\ peak.result[b].action = "SELL_ALL"
              /\ peak.result[b].idx < Len(peak.closes) - 1

\* C18: if PeakAnnotator is still holding when the scan reaches the final bar
\* it emits SELL_ALL there: the last action is SELL_ALL with index
\* len(bars) - 1, and no scan ends in the holding state.
C18_FinalBarSellsAll ==
    (peak.pc = "done" /\ StillHoldingAtFinalBar) =>
        /\ peak.result[Len(peak.result)] = Action(Len(peak.closes) - 1, "SELL_ALL")
        /\ ~peak.holding

\* --------------------------------------------------------------- claim C19
\* a turn of the loop at bar i, holding, before the final bar, at least 3
\* bars after the last buy, the three curves as the claim wants them
CurvatureTurn ==
    /\ PeakInLoop
    /\ peak.holding
    /\ peak.i # Len(peak.closes) - 1
    /\ peak.i - peak.last_buy >= HoldBars
    /\ D2m(peak.i) < 0
    /\ 0 < D2h(peak.i)
    /\ D2h(peak.i) < peak.trough_limit
    /\ Ad1l(peak.i) < peak.trough_limit
    /\ peak'.i = peak.i + 1

\* C19: while holding, at a non-final bar at least 3 bars after the last buy
\* at which no SELL_HALF is emitted, SELL_ALL is emitted and holding ends
\* when the mid SMA's second derivative is negative, the slow SMA's lies
\* strictly between 0 and trough_limit and the fast SMA's |first derivative|
\* is below trough_limit.
C19_CurvatureSellsAll ==
    [][(CurvatureTurn /\ peak'.result # Append(peak.result, Action(peak.i, "SELL_HALF")))
          => /\ peak'.result = Append(peak.result, Action(peak.i, "SELL_ALL"))
             /\ ~peak'.holding]_vars

\* the second half of C19 asks for a SELL_ALL before the final bar; no scan
\* makes one
NoSellAllBeforeFinalBar ==
    peak.pc \in {"for", "done"} =>
        \A a \in 1 .. Len(peak.result) :
            peak.result[a].action = "SELL_ALL" => peak.result[a].idx = Len(peak.closes) - 1

\* --------------------------------------------------------------- claim C20
\* C20: an annotator whose indicator map lacks a required indicator
\* (PeakAnnotator: three SMA metrics; MACDAnnotator: macd, signal and the EMA
\* it reads) raises an error and never returns an action list.
C20_MissingIndicatorRaises ==
    /\ (mann.pc = "done" /\ mann.metrics # MacdMetrics) => mann.outcome = "raised"
    /\ (peak.pc = "done" /\ Cardinality(peak.windows) < 3) => peak.outcome = "raised"

\* ---------------------------------------------------------- claims C21-C30
\* the end of the interval lies on a day after the current one
FutureEnd == Date(stop) > today

\* C24: a call of process_interval with exclusive_end true whose end
\* start + duration lies past the current date throws and checks, loads,
\* fetches and saves no day.
C24_FutureExclusiveEndRaises ==
    (outcome # "none" /\ exclusive_end /\ FutureEnd) =>
        outcome = "raised" /\ trace = <<>> /\ result = <<>>

\* the volumes of the bars of a result
RECURSIVE SumVolumes(_)
SumVolumes(bs) == IF bs = <<>> THEN 0 ELSE Head(bs).volume + SumVolumes(Tail(bs))

\* C30: find_bars counts every trade in exactly one bar: the volumes of the
\* returned bars add up to the counts of all the trades passed in.
C30_EveryTradeCountedOnce ==
    find.pc = "done" => SumVolumes(find.result) = SumCounts(find.trades)

\* a finished run over three trades with a trade on a bucket boundary, a
\* bucket opened by a trade and a bucket without trades
C30_Witness ==
    /\ find.pc = "done"
    /\ Len(find.trades) = MaxTrades
    /\ Len(find.result) >= 3
    /\ \E i \in 1 .. Len(find.result) : find.result[i].synth
    /\ \E k \in 1 .. Len(find.trades), i \in 2 .. Len(find.result) :
         find.trades[k].timestamp = find.result[i].timestamp

\* the bar of data.bars the loop of line 79 is at
MannBar == mann.start + mann.bi

\* C25: every (index, action) MACDAnnotator.annotate emits carries the index
\* of the bar the loop is at, its position in data.bars, also when the MACD
\* series is shorter than the bars and the offset of line 77 is applied, and
\* the emitted indices are strictly ascending.
C25_EmitsBarIndex ==
    [][Len(mann'.result) > Len(mann.result) =>
          LET n == Len(mann'.result)
          IN  /\ mann'.result[n].idx = MannBar
              /\ n > 1 => mann'.result[n - 1].idx < mann'.result[n].idx]_vars

\* lines 80-90: what the turn of the loop at bar start + bi sees, NONE where
\* line 83 skips the bar
MannCrossover(bi) ==
    LET idx == mann.start + bi - mann.macd_offset
    IN  IF idx < mann.window
          THEN "NONE"
          ELSE detect_macd_signal_crossover(idx, mann.macd_raw,
                                            idx - mann.window, mann.signal_raw)

\* C27: over the turns the scan of MACDAnnotator.annotate has made, at
\* consecutive indices of the MACD and signal series, the results of
\* detect_macd_signal_crossover other than NONE alternate: between two
\* POSITIVE there is a NEGATIVE and between two NEGATIVE a POSITIVE, also
\* when the series touch and separate again without crossing.
C27_CrossoversAlternate ==
    mann.pc \in {"for", "done"} =>
        \A a, b \in 0 .. mann.bi - 1 :
            (/\ a < b
             /\ MannCrossover(a) # "NONE"
             /\ MannCrossover(b) # "NONE"
             /\ \A k \in a + 1 .. b - 1 : MannCrossover(k) = "NONE")
            => MannCrossover(a) # MannCrossover(b)

\* an index that reads a list without wrapping around its end
InRange(k, xs) == 0 <= k /\ k < Len(xs)

\* C28: for every start >= 0 and every bar i of the scan of
\* PeakAnnotator.annotate each index i - window that reads a derivative list
\* of the fast (line 36), slow (lines 38, 64) or middle (line 63) SMA is
\* non-negative and smaller than the length of the list, so it never wraps
\* around to a value of a later bar.
C28_DerivativeIndexInRange ==
    PeakInLoop =>
        /\ InRange(peak.i - peak.swin[1], peak.fast_d1)
        /\ (~peak.holding /\ Ad1l(peak.i) < peak.trough_limit)
              => InRange(peak.i - peak.swin[Len(peak.swin)], peak.slow_d1)
        /\ (~PeakBuys /\ ~PeakWaits /\ ~SellHalfCond /\ ~AtFinalBar)
              => /\ InRange(peak.i - peak.swin[2], peak.mid_d2)
                 /\ InRange(peak.i - peak.swin[Len(peak.swin)], peak.slow_d2)

NewsCloses == {1, 2, 3}

NewsBarLists == UNION {[1 .. n -> NewsCloses] : n \in 1 .. NewsBars}

\* a news article: published at timestamp, last updated at updated_at
Article(ts, ua) == [timestamp |-> ts, updated_at |-> ua]

Articles == {Article(ts, ua) : ts \in 0 .. MaxNewsTime, ua \in 0 .. MaxNewsTime}

NewsLists == UNION {[1 .. n -> {a \in Articles : a.timestamp <= a.updated_at}] : n \in 1 .. 2}

\* minimum, in hundredths
Minimums == {0, 50}

BarTime(k) == k + 1

\* lines 86-90: the first bar stamped after the first article's update, -1
\* for None
FirstBarAfter(bars, t) ==
    IF \E k \in 0 .. Len(bars) - 1 : BarTime(k) > t
      THEN CHOOSE k \in 0 .. Len(bars) - 1 :
               /\ BarTime(k) > t
               /\ \A j \in 0 .. k - 1 : ~(BarTime(j) > t)
      ELSE -1

\* lines 102 and 106: (b.close - ibar.close) / ibar.close, closes being > 0
ChangeOver(bars, k, ibar) == Frac(At(bars, k) - At(bars, ibar), At(bars, ibar))

\* line 103
Exceeds(cp, minimum) == FracLess(Frac(minimum, 100), cp)

csnRest == <<cacheVars, fill, find, sma, metric, signalVars>>

CsnInit ==
    \E bs \in NewsBarLists, ns \in NewsLists, m \in Minimums :
        csn = [pc |-> "call", bars |-> bs, news |-> ns, minimum |-> m,
               nindex |-> 0, ibar |-> -1, bindex |-> -1, bi |-> 0, ibars |-> <<>>,
               change |-> Zero, idx |-> -1]

\* lines 80-93
CsnBegin ==
    /\ csn.pc = "call"
    /\ LET news   == SortByTimestamp(csn.news)
           bindex == FirstBarAfter(csn.bars, news[1].updated_at)
       IN  IF bindex < 0
             THEN csn' = [csn EXCEPT !.news = news, !.pc = "done",
                                     !.change = Zero, !.idx = Len(csn.bars) - 1]
             ELSE csn' = [csn EXCEPT !.news = news, !.pc = "for",
                                     !.ibar = bindex, !.bindex = bindex]
    /\ UNCHANGED csnRest

\* line 95: the bar the second loop is at
CsnBar == csn.bi + csn.bindex + 1

\* line 96
NextArticleOut ==
    /\ csn.nindex < Len(csn.news) - 1
    /\ BarTime(CsnBar) > At(csn.news, csn.nindex + 1).updated_at

\* lines 96-100: the next article is out, the bar becomes the reference when
\* it closed lower, and nothing else is done with the bar
CsnNextArticle ==
    /\ csn.pc = "for"
    /\ CsnBar < Len(csn.bars)
    /\ NextArticleOut
    /\ LET ibar == IF At(csn.bars, CsnBar) < At(csn.bars, csn.ibar)
                     THEN CsnBar
                     ELSE csn.ibar
       IN  csn' = [csn EXCEPT !.nindex = @ + 1,
                              !.ibar = ibar,
                              !.ibars = Append(@, ibar),
                              !.bi = @ + 1]
    /\ UNCHANGED csnRest

\* lines 102-104
CsnCompare ==
    /\ csn.pc = "for"
    /\ CsnBar < Len(csn.bars)
    /\ ~NextArticleOut
    /\ LET cp == ChangeOver(csn.bars, CsnBar, csn.ibar)
       IN  IF Exceeds(cp, csn.minimum)
             THEN csn' = [csn EXCEPT !.pc = "done", !.change = cp, !.idx = CsnBar]
             ELSE csn' = [csn EXCEPT !.ibars = Append(@, csn.ibar), !.bi = @ + 1]
    /\ UNCHANGED csnRest

\* lines 106-107: bars[-1] != ibar compares the objects
CsnReturn ==
    /\ csn.pc = "for"
    /\ CsnBar >= Len(csn.bars)
    /\ LET last == Len(csn.bars) - 1
       IN  csn' = [csn EXCEPT !.pc = "done",
                              !.change = IF last # csn.ibar
                                           THEN ChangeOver(csn.bars, last, csn.ibar)
                                           ELSE Zero,
                              !.idx = last]
    /\ UNCHANGED csnRest

InitNews ==
    /\ CacheIdle
    /\ CsnInit
    /\ fill = Unused
    /\ find = Unused
    /\ sma = Unused
    /\ metric = Unused
    /\ SignalIdle

NextNews ==
    \/ CsnBegin
    \/ CsnNextArticle
    \/ CsnCompare
    \/ CsnReturn

SpecNews == InitNews /\ [][NextNews]_vars

\* the reference bar in force when the scan was at bar k
ReferenceAt(k) == csn.ibars[k - csn.bindex]

\* the result says the rise was found, at the first bar that shows it
CsnFound ==
    /\ Exceeds(csn.change, csn.minimum)
    /\ csn.bindex >= 0
    /\ csn.idx > csn.bindex
    /\ FracEq(csn.change, ChangeOver(csn.bars, csn.idx, csn.ibar))
    /\ \A k \in csn.bindex + 1 .. csn.idx - 1 :
         ~Exceeds(ChangeOver(csn.bars, k, ReferenceAt(k)), csn.minimum)

\* the result says no bar shows the rise
CsnNotFound ==
    /\ csn.idx = Len(csn.bars) - 1
    /\ ~Exceeds(csn.change, csn.minimum)
    /\ FracEq(csn.change, IF csn.bindex < 0
                            THEN Zero
                            ELSE ChangeOver(csn.bars, csn.idx, csn.ibar))

\* C23: for non-empty bars and news change_since_news returns (change, idx)
\* with 0 <= idx <= len(bars) - 1, and either change > minimum and idx is the
\* first bar whose close has risen by more than minimum over the close of
\* the reference bar, or idx = len(bars) - 1 and change is the last bar's
\* change over the reference bar, not above minimum; ChangeSinceNewsFilter,
\* which passes when change > minimum, so passes only in the first case.
C23_FoundFirstOrLast ==
    csn.pc = "done" =>
        /\ 0 <= csn.idx
        /\ csn.idx <= Len(csn.bars) - 1
        /\ CsnFound \/ CsnNotFound

\* --------------------------------- StockMetric, SMAStockMetric (metrics.py)
MetricCloses == {1, 2}

\* a GeneralStockPlotInfo: the closes of the previous day and of the day
DataSets ==
    {[previous_closes |-> ps, closes |-> cs] :
        ps \in UNION {[1 .. n -> MetricCloses] : n \in 0 .. MetricPrev},
        cs \in [1 .. MaxBars -> MetricCloses]}

\* a field that is None
None == [is_none |-> TRUE]

Some(v) == [is_none |-> FALSE, v |-> v]

\* xs[:-k] for k >= 1: xs without its last k elements
AllButLast(xs, k) == SubSeq(xs, 1, Len(xs) - k)

\* processing.py, lines 197-212: the values of the series, the times being
\* those of the bars
create_continuous_sma(previous_bars, bars, window) ==
    IF Len(previous_bars) + Len(bars) < window
      THEN <<>>
      ELSE [i \in 1 .. Len(bars) |-> Mean(SmaSamples(previous_bars, bars, window, i))]

\* lines 138-140: what SMAStockMetric.process_data hands on
previous_closes(info, window) == AllButLast(info.previous_closes, window)

process_data(info, window) ==
    create_continuous_sma(previous_closes(info, window), info.closes, window)

\* lines 25-30, of a metric m asked with the data set named which: a tuple
\* of two lists is true whatever the lists hold
get_data(m, which) ==
    IF m.result.is_none
      THEN LET res == process_data(m.data[which], m.window)
           IN  [m EXCEPT !.result = Some(res),
                         !.handed = Some(previous_closes(m.data[which], m.window)),
                         !.returned = res,
                         !.asked = which]
      ELSE [m EXCEPT !.returned = m.result.v, !.asked = which]

\* lines 44-51: first_derivative holds the derivatives of the series that
\* get_data returns; it is kept here as that series
process_all(m, which) ==
    LET m1 == get_data(m, which)
    IN  IF m1.first_derivative.is_none
          THEN [m1 EXCEPT !.first_derivative = Some(get_data(m1, which).returned)]
          ELSE m1

metricRest == <<cacheVars, fill, find, sma, csn, signalVars>>

MetricInit ==
    \E a \in DataSets, b \in DataSets, w \in 1 .. 2 :
        /\ a # b
        /\ metric = [pc |-> "idle", window |-> w, data |-> [A |-> a, B |-> b],
                     result |-> None, first_derivative |-> None, handed |-> None,
                     returned |-> <<>>, asked |-> "none", op |-> "none", calls |-> 0]

MetricGetData ==
    /\ metric.pc = "idle"
    /\ metric.calls < MetricCalls
    /\ \E which \in {"A", "B"} :
         metric' = [get_data(metric, which) EXCEPT !.op = "get_data", !.calls = @ + 1]
    /\ UNCHANGED metricRest

MetricProcessAll ==
    /\ metric.pc = "idle"
    /\ metric.calls < MetricCalls
    /\ \E which \in {"A", "B"} :
         metric' = [process_all(metric, which) EXCEPT !.op = "process_all",
                                                      !.calls = @ + 1]
    /\ UNCHANGED metricRest

InitMetric ==
    /\ CacheIdle
    /\ MetricInit
    /\ fill = Unused
    /\ find = Unused
    /\ sma = Unused
    /\ csn = Unused
    /\ SignalIdle

NextMetric ==
    \/ MetricGetData
    \/ MetricProcessAll

SpecMetric == InitMetric /\ [][NextMetric]_vars

\* what a metric object created for the data set named which returns
Fresh(which) == process_data(metric.data[which], metric.window)

\* C21: a metric asked through get_data or process_all on a data set returns
\* the series computed from that data set, and holds the derivatives of that
\* series, as a fresh metric object does, also when it was asked on another
\* data set before.
C21_NothingCarriedOver ==
    metric.pc = "idle" /\ metric.asked # "none" =>
        /\ metric.returned = Fresh(metric.asked)
        /\ metric.op = "process_all" => metric.first_derivative = Some(Fresh(metric.asked))

\* C26: the previous values SMAStockMetric.process_data hands to
\* create_continuous_sma end with the closes right before the first current
\* bar: their last window values are the last window values of
\* data.previous_closes.
C26_HandsOnTailOfPreviousDay ==
    (metric.pc = "idle" /\ metric.calls = 1) =>
        LastSlice(metric.handed.v, metric.window)
            = LastSlice(metric.data[metric.asked].previous_closes, metric.window)

\* C29: with the map that setup_ema, setup_macd and setup_signal build from
\* the default metric names every key MACDAnnotator.annotate looks up is
\* present: the call does not fail on a missing key and reaches its scan.
C29_DefaultMapHasEveryKey ==
    /\ ~metric_dict(DefaultMetrics).raised
    /\ (mann.pc # "call" /\ mann.metrics = metric_dict(DefaultMetrics).keys)
           => mann.pc = "for" \/ mann.outcome = "returned"

====
